---- MODULE Spec2Model ----
(***************************************************************************)
(* Model of routes/conversion-router.mjs: the two request handlers         *)
(*   POST /conversion/image  (transcribe-image)                            *)
(*   POST /conversion/file   (convert-file)                                *)
(* together with the helpers they use (stripJsonCodeFence, JSON.parse,     *)
(* string coercion).                                                       *)
(*                                                                         *)
(* Text is a sequence of characters.  A character is a one-letter string,  *)
(* except the five that are named: "BT" backtick, "QT" double quote,       *)
(* "BS" backslash, "NL" newline, "SP" space.                               *)
(*                                                                         *)
(* A JavaScript value is a record tagged by t:                             *)
(*   [t |-> "undefined"]  [t |-> "null"]  [t |-> "bool", b |-> BOOLEAN]    *)
(*   [t |-> "num", n |-> Nat]  [t |-> "str", s |-> Text]                   *)
(*   [t |-> "arr", a |-> Seq(value)]                                       *)
(*   [t |-> "obj", o |-> Seq([k |-> Text, val |-> value])]                 *)
(***************************************************************************)
EXTENDS Integers, Sequences, FiniteSets, TLC

VARIABLES
    ipc,        \* /image handler position: "idle", "awaitGateway", "done"
    req,        \* /image req.body
    transcript, \* the transcript handed to chatModel.extendTranscript
    gatewayCalls, \* number of calls of chatModel.extendTranscript
    suffix,     \* what extendTranscript resolved with (or NoSuffix)
    ifault,     \* the error a dependency of /image threw (or NoFault)
    ires,       \* the /image response (or NoResponse)
    fpc,        \* /file handler position
    file,       \* req.file of /file (or NoFile)
    tempExists, \* the uploaded temporary file is on disk
    unlinkCalls, \* number of calls of fs.unlink
    extractCalls, \* calls of each extraction strategy
    ffault,     \* the error a dependency of /file threw (or NoFault)
    fres,       \* the /file response (or NoResponse)
    unlinkPending, \* fs.unlink was called and its callback has not run
    logged,     \* console.error lines of the unlink callback
    fin,        \* input text of the fence/extraction function check
    fform,      \* which form of reply was built from fin
    fout        \* result of the function applied to fin

vars == <<ipc, req, transcript, gatewayCalls, suffix, ifault, ires,
          fpc, file, tempExists, unlinkCalls, extractCalls, ffault, fres,
          unlinkPending, logged, fin, fform, fout>>

imageVars == <<ipc, req, transcript, gatewayCalls, suffix, ifault, ires>>
fileVars == <<fpc, file, tempExists, unlinkCalls, extractCalls, ffault, fres,
             unlinkPending, logged>>
fnVars == <<fin, fform, fout>>

----------------------------------------------------------------------------
(* JavaScript values *)

Undefined == [t |-> "undefined"]
Null == [t |-> "null"]
Bool(b) == [t |-> "bool", b |-> b]
Num(n) == [t |-> "num", n |-> n]
Str(s) == [t |-> "str", s |-> s]
Arr(a) == [t |-> "arr", a |-> a]
Obj(o) == [t |-> "obj", o |-> o]
KV(k, v) == [k |-> k, val |-> v]

\* typeof v
TypeOf(v) ==
    CASE v.t = "undefined" -> "undefined"
      [] v.t = "bool" -> "boolean"
      [] v.t = "num" -> "number"
      [] v.t = "str" -> "string"
      [] OTHER -> "object"

\* ToBoolean: the test of `if (v)`, `v || w`, `v && w`
Truthy(v) ==
    CASE v.t = "undefined" -> FALSE
      [] v.t = "null" -> FALSE
      [] v.t = "bool" -> v.b
      [] v.t = "num" -> v.n # 0
      [] v.t = "str" -> v.s # <<>>
      [] OTHER -> TRUE

\* Array.isArray(v)
IsArray(v) == v.t = "arr"

Digits == <<"0","1","2","3","4","5","6","7","8","9">>

RECURSIVE NatToText(_)
NatToText(n) ==
    IF n < 10 THEN <<Digits[n + 1]>>
    ELSE NatToText(n \div 10) \o <<Digits[(n % 10) + 1]>>

TxtUndefined == <<"u","n","d","e","f","i","n","e","d">>
TxtNull == <<"n","u","l","l">>
TxtTrue == <<"t","r","u","e">>
TxtFalse == <<"f","a","l","s","e">>
TxtObjectObject == <<"[","o","b","j","e","c","t","SP","O","b","j","e","c","t","]">>

\* ToString: String(v), `${v}` and the right operand of `str += v`
RECURSIVE ToStringJS(_)
RECURSIVE JoinJS(_, _)
ToStringJS(v) ==
    CASE v.t = "undefined" -> TxtUndefined
      [] v.t = "null" -> TxtNull
      [] v.t = "bool" -> (IF v.b THEN TxtTrue ELSE TxtFalse)
      [] v.t = "num" -> NatToText(v.n)
      [] v.t = "str" -> v.s
      [] v.t = "arr" -> JoinJS(v.a, 1)
      [] OTHER -> TxtObjectObject
\* Array.prototype.join(","): null and undefined elements give the empty string
JoinJS(a, i) ==
    IF i > Len(a) THEN <<>>
    ELSE (IF a[i].t \in {"undefined", "null"} THEN <<>> ELSE ToStringJS(a[i]))
         \o (IF i < Len(a) THEN <<",">> ELSE <<>>)
         \o JoinJS(a, i + 1)

\* v[key] for a value that is neither null nor undefined: own property of a
\* plain object (the last of duplicate keys, as JSON.parse keeps it);
\* undefined on primitives and on arrays for a non-index key
RECURSIVE LookupFrom(_, _, _)
LookupFrom(o, key, i) ==
    IF i = 0 THEN Undefined
    ELSE IF o[i].k = key THEN o[i].val
    ELSE LookupFrom(o, key, i - 1)
GetProp(v, key) ==
    IF v.t = "obj" THEN LookupFrom(v.o, key, Len(v.o)) ELSE Undefined

----------------------------------------------------------------------------
(* Text helpers *)

WS == {"SP", "NL"}
Fence == <<"BT","BT","BT">>

Slice(s, a, b) == IF a > b THEN <<>> ELSE SubSeq(s, a, b)

StartsWithAt(s, i, p) ==
    /\ i + Len(p) - 1 <= Len(s)
    /\ \A k \in 1..Len(p) : s[i + k - 1] = p[k]

AllWs(s, a, b) == \A k \in a..b : s[k] \in WS

\* number of whitespace characters of s from position i on
RECURSIVE WsRun(_, _)
WsRun(s, i) == IF i <= Len(s) /\ s[i] \in WS THEN 1 + WsRun(s, i + 1) ELSE 0

\* String.prototype.trim
Trim(s) ==
    LET lead == WsRun(s, 1)
        last == IF lead = Len(s) THEN 0
                ELSE CHOOSE e \in 1..Len(s) :
                        /\ s[e] \notin WS
                        /\ AllWs(s, e + 1, Len(s))
    IN Slice(s, lead + 1, last)

----------------------------------------------------------------------------
(* stripJsonCodeFence: str.replace(/^```(?:json)?\s*([\s\S]+?)\s*```$/i, '$1').trim() *)

TagChars == <<{"j","J"}, {"s","S"}, {"o","O"}, {"n","N"}>>

\* (?:json) under the i flag, at position i
HasTagAt(s, i) ==
    /\ i + 3 <= Len(s)
    /\ \A k \in 1..4 : s[i + k - 1] \in TagChars[k]

\* (?:json)? is greedy: the engine first tries to continue after the tag
\* (position 8), and falls back to skipping the group (position 4)
AfterTag(s) == IF HasTagAt(s, 4) THEN <<8, 4>> ELSE <<4>>

\* With the tag group settled at p, `\s*([\s\S]+?)\s*```$` matches the rest
\* iff one character is left for the group before the closing fence
RestMatches(s, p) == p <= Len(s) - 3

\* The group's first and last position: the leading \s* is greedy (gives back
\* only what the group needs), the group is lazy (the shortest that lets
\* `\s*```$` match the rest)
CaptureFrom(s, p) ==
    LET n == Len(s)
        run == WsRun(s, p)
        w == IF p + run <= n - 3 THEN run ELSE n - 3 - p
        c == p + w
        last == CHOOSE e \in c..(n - 3) :
                    /\ AllWs(s, e + 1, n - 3)
                    /\ \A d \in c..(e - 1) : ~AllWs(s, d + 1, n - 3)
    IN Slice(s, c, last)

\* ^``` ... ```$ without the m flag: the fences are the first and the last
\* three characters of the whole string
FenceRegexMatches(s) ==
    /\ Len(s) >= 7
    /\ StartsWithAt(s, 1, Fence)
    /\ StartsWithAt(s, Len(s) - 2, Fence)

\* faulty variant of FenceReplace: every fence (with a json tag after it) is
\* removed, wherever it stands
RECURSIVE DropFences(_, _)
DropFences(s, i) ==
    IF i > Len(s) THEN <<>>
    ELSE IF StartsWithAt(s, i, Fence)
         THEN DropFences(s, IF HasTagAt(s, i + 3) THEN i + 7 ELSE i + 3)
    ELSE <<s[i]>> \o DropFences(s, i + 1)
FenceReplaceEveryFence(s) == DropFences(s, 1)

\* str.replace(regex, '$1'): the anchored match is the whole string, so the
\* result is the group; an unmatched string is returned as it is
FenceReplace(s) ==
    IF ~FenceRegexMatches(s) THEN s
    ELSE LET ps == AfterTag(s)
             p == IF RestMatches(s, ps[1]) THEN ps[1] ELSE ps[Len(ps)]
         IN IF RestMatches(s, p) THEN CaptureFrom(s, p) ELSE s

stripJsonCodeFence(str) == Trim(FenceReplace(str))

----------------------------------------------------------------------------
(* JSON.parse, on the characters of the model's alphabet: whitespace,      *)
(* null/true/false, unsigned integers, strings with the escapes \" \\ \/   *)
(* and \n, arrays, objects.  Anything else is a SyntaxError.               *)

ParseFail == [ok |-> FALSE, val |-> Undefined, pos |-> 0]
ParseOk(v, p) == [ok |-> TRUE, val |-> v, pos |-> p]

RECURSIVE SkipWs(_, _)
SkipWs(s, i) == IF i <= Len(s) /\ s[i] \in WS THEN SkipWs(s, i + 1) ELSE i

DigitSet == {Digits[k] : k \in 1..10}
DigitVal(c) == (CHOOSE k \in 1..10 : Digits[k] = c) - 1

\* the digits after the first one
RECURSIVE ParseDigits(_, _, _)
ParseDigits(s, i, acc) ==
    IF i <= Len(s) /\ s[i] \in DigitSet
    THEN ParseDigits(s, i + 1, acc * 10 + DigitVal(s[i]))
    ELSE ParseOk(Num(acc), i)

\* a number starting at i: 0, or a nonzero digit followed by digits
ParseNumber(s, i) ==
    IF s[i] = "0" THEN ParseOk(Num(0), i + 1)
    ELSE ParseDigits(s, i + 1, DigitVal(s[i]))

\* the characters of a string after its opening quote
RECURSIVE ParseString(_, _, _)
ParseString(s, i, acc) ==
    IF i > Len(s) THEN ParseFail
    ELSE IF s[i] = "QT" THEN ParseOk(Str(acc), i + 1)
    ELSE IF s[i] = "NL" THEN ParseFail
    ELSE IF s[i] = "BS" THEN
        IF i + 1 > Len(s) THEN ParseFail
        ELSE IF s[i + 1] \in {"QT", "BS", "/"} THEN ParseString(s, i + 2, Append(acc, s[i + 1]))
        ELSE IF s[i + 1] = "n" THEN ParseString(s, i + 2, Append(acc, "NL"))
        ELSE ParseFail
    ELSE ParseString(s, i + 1, Append(acc, s[i]))

RECURSIVE ParseValue(_, _)
RECURSIVE ParseElements(_, _, _)
RECURSIVE ParseMembers(_, _, _)

ParseValue(s, i) ==
    LET j == SkipWs(s, i) IN
    IF j > Len(s) THEN ParseFail
    ELSE IF s[j] = "{" THEN
        (LET k == SkipWs(s, j + 1) IN
         IF k <= Len(s) /\ s[k] = "}" THEN ParseOk(Obj(<<>>), k + 1)
         ELSE ParseMembers(s, k, <<>>))
    ELSE IF s[j] = "[" THEN
        (LET k == SkipWs(s, j + 1) IN
         IF k <= Len(s) /\ s[k] = "]" THEN ParseOk(Arr(<<>>), k + 1)
         ELSE ParseElements(s, k, <<>>))
    ELSE IF s[j] = "QT" THEN ParseString(s, j + 1, <<>>)
    ELSE IF s[j] \in DigitSet THEN ParseNumber(s, j)
    ELSE IF StartsWithAt(s, j, TxtNull) THEN ParseOk(Null, j + 4)
    ELSE IF StartsWithAt(s, j, TxtTrue) THEN ParseOk(Bool(TRUE), j + 4)
    ELSE IF StartsWithAt(s, j, TxtFalse) THEN ParseOk(Bool(FALSE), j + 5)
    ELSE ParseFail

\* value (, value)* ]
ParseElements(s, i, acc) ==
    LET r == ParseValue(s, i) IN
    IF ~r.ok THEN ParseFail
    ELSE LET k == SkipWs(s, r.pos) IN
         IF k > Len(s) THEN ParseFail
         ELSE IF s[k] = "]" THEN ParseOk(Arr(Append(acc, r.val)), k + 1)
         ELSE IF s[k] = "," THEN ParseElements(s, k + 1, Append(acc, r.val))
         ELSE ParseFail

\* "key" : value (, "key" : value)* }
ParseMembers(s, i, acc) ==
    LET j == SkipWs(s, i) IN
    IF j > Len(s) \/ s[j] # "QT" THEN ParseFail
    ELSE LET key == ParseString(s, j + 1, <<>>) IN
         IF ~key.ok THEN ParseFail
         ELSE LET c == SkipWs(s, key.pos) IN
              IF c > Len(s) \/ s[c] # ":" THEN ParseFail
              ELSE LET r == ParseValue(s, c + 1) IN
                   IF ~r.ok THEN ParseFail
                   ELSE LET k == SkipWs(s, r.pos)
                            more == Append(acc, KV(key.val.s, r.val))
                        IN IF k > Len(s) THEN ParseFail
                           ELSE IF s[k] = "}" THEN ParseOk(Obj(more), k + 1)
                           ELSE IF s[k] = "," THEN ParseMembers(s, k + 1, more)
                           ELSE ParseFail

\* JSON.parse(text): [ok |-> TRUE, val |-> the value], or ok FALSE for a SyntaxError
JSONparse(s) ==
    LET r == ParseValue(s, 1) IN
    IF r.ok /\ SkipWs(s, r.pos) > Len(s)
    THEN [ok |-> TRUE, val |-> r.val]
    ELSE [ok |-> FALSE, val |-> Undefined]

----------------------------------------------------------------------------
(* The JSON text a model writes for a value (JSON.stringify's output)      *)

RECURSIVE EscapeFrom(_, _)
EscapeFrom(s, i) ==
    IF i > Len(s) THEN <<>>
    ELSE (CASE s[i] = "QT" -> <<"BS", "QT">>
            [] s[i] = "BS" -> <<"BS", "BS">>
            [] s[i] = "NL" -> <<"BS", "n">>
            [] OTHER -> <<s[i]>>) \o EscapeFrom(s, i + 1)
Quote(s) == <<"QT">> \o EscapeFrom(s, 1) \o <<"QT">>

RECURSIVE Encode(_)
RECURSIVE EncodeElements(_, _)
RECURSIVE EncodeMembers(_, _)
Encode(v) ==
    CASE v.t = "null" -> TxtNull
      [] v.t = "bool" -> (IF v.b THEN TxtTrue ELSE TxtFalse)
      [] v.t = "num" -> NatToText(v.n)
      [] v.t = "str" -> Quote(v.s)
      [] v.t = "arr" -> <<"[">> \o EncodeElements(v.a, 1) \o <<"]">>
      [] v.t = "obj" -> <<"{">> \o EncodeMembers(v.o, 1) \o <<"}">>
EncodeElements(a, i) ==
    IF i > Len(a) THEN <<>>
    ELSE Encode(a[i]) \o (IF i < Len(a) THEN <<",">> ELSE <<>>) \o EncodeElements(a, i + 1)
EncodeMembers(o, i) ==
    IF i > Len(o) THEN <<>>
    ELSE Quote(o[i].k) \o <<":">> \o Encode(o[i].val)
         \o (IF i < Len(o) THEN <<",">> ELSE <<>>) \o EncodeMembers(o, i + 1)

----------------------------------------------------------------------------
(* POST /conversion/image: request destructuring and validation *)

KeyMarkdown == <<"m","a","r","k","d","o","w","n">>
KeyIsFirstPage == <<"i","s","F","i","r","s","t","P","a","g","e">>
KeyDescription == <<"d","e","s","c","r","i","p","t","i","o","n">>
KeyTags == <<"t","a","g","s">>
KeyText == <<"t","e","x","t">>

NoResponse == [status |-> 0]
\* res.status(code).json(body); res.json(body) is status 200
Response(code, body) == [status |-> code, body |-> body]

NoFault == [thrown |-> FALSE]
\* an Error with the given message, and where it was thrown
Fault(origin, m) == [thrown |-> TRUE, origin |-> origin, message |-> m]

ErrNoImageUrl == "No \"imageUrl\" provided."
ErrImageGeneric == "An unexpected error occurred while transcribing the image."

\* `describe = true` in the destructuring: the default applies to undefined only
DescribeOf(body) ==
    IF body.describe.t = "undefined" THEN Bool(TRUE) ELSE body.describe

\* tags that came in as a JSON string are parsed; a parse failure gives null
TagsOf(body) ==
    IF TypeOf(body.tags) = "string"
    THEN (LET r == JSONparse(body.tags.s) IN IF r.ok THEN r.val ELSE Null)
    ELSE body.tags

\* faulty variant of MissingImageUrl: only the empty string is refused
MissingImageUrlOnlyEmpty(imageUrl) == imageUrl.t = "str" /\ imageUrl.s = <<>>

\* if (!imageUrl)
MissingImageUrl(imageUrl) == ~Truthy(imageUrl)

----------------------------------------------------------------------------
(* POST /conversion/image: the transcript.  userText is kept as the sequence *)
(* of the blocks appended to it, each with the text interpolated into it.    *)

Section(name, arg) == [sec |-> name, arg |-> arg]

\* faulty variant of OptionalSection: presence, not truthiness, gates the block
OptionalSectionIfPresent(name, field) ==
    IF field.t # "undefined" THEN <<Section(name, ToStringJS(field))>> ELSE <<>>

\* if (field) { userText += `**...**: ${field}\n\n`; }
OptionalSection(name, field) ==
    IF Truthy(field) THEN <<Section(name, ToStringJS(field))>> ELSE <<>>

\* Object.entries(v) for a truthy v
RECURSIVE IndexEntries(_, _)
IndexEntries(items, i) ==
    IF i > Len(items) THEN <<>>
    ELSE <<KV(NatToText(i - 1), items[i])>> \o IndexEntries(items, i + 1)
ObjectEntries(v) ==
    CASE v.t = "obj" -> v.o
      [] v.t = "arr" -> IndexEntries(v.a, 1)
      [] v.t = "str" -> IndexEntries([k \in 1..Len(v.s) |-> Str(<<v.s[k]>>)], 1)
      [] OTHER -> <<>>

\* - Tag "${tagName}": ${tagDef}\n   for each entry
RECURSIVE TagLines(_, _)
TagLines(entries, i) ==
    IF i > Len(entries) THEN <<>>
    ELSE <<Section("tag", entries[i].k \o <<":">> \o ToStringJS(entries[i].val))>>
         \o TagLines(entries, i + 1)

TagsBlock(tags) ==
    IF Truthy(tags)
    THEN <<Section("tagsHeader", <<>>)>> \o TagLines(ObjectEntries(tags), 1)
         \o <<Section("tagsFooter", <<>>)>>
    ELSE <<>>

DescribeSection(describe) ==
    IF Truthy(describe) THEN <<Section("includeDescription", <<>>)>>
    ELSE <<Section("noDescription", <<>>)>>

UserText(body) ==
    <<Section("transcribe", <<>>), Section("outputFormat", <<>>)>>
    \o OptionalSection("description", body.description)
    \o OptionalSection("intent", body.intent)
    \o OptionalSection("graphic_instructions", body.graphic_instructions)
    \o OptionalSection("preceding_content", body.preceding_content)
    \o OptionalSection("preceding_context", body.preceding_context)
    \o (IF Truthy(body.preceding_image_url) THEN <<Section("precedingImageNote", <<>>)>> ELSE <<>>)
    \o TagsBlock(TagsOf(body))
    \o DescribeSection(DescribeOf(body))
    \o <<Section("closing", <<>>)>>

TextPart(text) == [kind |-> "text", text |-> text]
ImageAttachment(url) == [kind |-> "image", source |-> url]
Message(role, content) == [role |-> role, content |-> content]

\* [ userText ], then the preceding image if any, then the current image
UserContent(body) ==
    <<TextPart(UserText(body))>>
    \o (IF Truthy(body.preceding_image_url)
        THEN <<ImageAttachment(body.preceding_image_url)>> ELSE <<>>)
    \o <<ImageAttachment(body.imageUrl)>>

BuildTranscript(body) ==
    << Message("system", <<TextPart(<<Section("systemInstructions", <<>>)>>)>>),
       Message("user", UserContent(body)) >>

DefaultModel == <<"l","l","a","m","a","-","v","i","s","i","o","n","-","m","i","n","i">>
\* model || 'llama-vision-mini'
ModelName(body) == IF Truthy(body.model) THEN body.model ELSE Str(DefaultModel)

----------------------------------------------------------------------------
(* POST /conversion/image: from the continuation to the response *)

\* suffix.messages.find(m => m.role === 'assistant'): its index, 0 if none
RECURSIVE FindAssistantFrom(_, _)
FindAssistantFrom(messages, i) ==
    IF i > Len(messages) THEN 0
    ELSE IF messages[i].role = "assistant" THEN i
    ELSE FindAssistantFrom(messages, i + 1)
FindAssistant(messages) == FindAssistantFrom(messages, 1)

\* the loop over assistantMsg.content: strings are appended, other items
\* contribute item.text when item and item.text are truthy
RECURSIVE FlattenParts(_, _)
FlattenParts(items, i) ==
    IF i > Len(items) THEN <<>>
    ELSE (IF TypeOf(items[i]) = "string" THEN items[i].s
          ELSE IF Truthy(items[i]) /\ Truthy(GetProp(items[i], KeyText))
               THEN ToStringJS(GetProp(items[i], KeyText))
          ELSE <<>>)
         \o FlattenParts(items, i + 1)

\* textOutput before the strip: the flattened array, or content || ''
TextOutput(content) ==
    IF IsArray(content) THEN Str(FlattenParts(content.a, 1))
    ELSE IF Truthy(content) THEN content
    ELSE Str(<<>>)

ErrNotAString == "str.replace is not a function"
ErrSetOnNull == "Cannot set properties of null (setting 'markdown')"
ErrSetOnPrimitive == "Cannot create property 'markdown' on a primitive value"

\* the properties the handler reads from `parsed` after the try/catch
PropsOf(v) == IF v.t = "obj" THEN v.o ELSE <<>>
SetProp(v, key, val) == Obj(Append(PropsOf(v), KV(key, val)))

\* String(parsed.markdown || '') when parsed.markdown is not a string
CoerceMarkdown(m) ==
    IF TypeOf(m) = "string" THEN m
    ELSE Str(ToStringJS(IF Truthy(m) THEN m ELSE Str(<<>>)))

\* parsed.isFirstPage, replaced by false unless it is a boolean
CoerceIsFirstPage(f) ==
    IF TypeOf(f) = "boolean" THEN f ELSE Bool(FALSE)

\* faulty variant of FallbackParsed: the catch branch leaves markdown at ''
FallbackParsedKeepsDefault(textOutput) ==
    Obj(<<KV(KeyMarkdown, Str(<<>>)), KV(KeyIsFirstPage, Bool(FALSE))>>)

\* the catch branch: parsed is still { markdown: '', isFirstPage: false };
\* markdown becomes the stripped text
FallbackParsed(textOutput) ==
    Obj(<<KV(KeyMarkdown, Str(textOutput)), KV(KeyIsFirstPage, Bool(FALSE))>>)

\* steps 8: [threw |-> FALSE, parsed |-> object] or the TypeError that escapes
\* the inner catch.  JSON.parse has already assigned `parsed` when a property
\* access on it throws, so the catch branch assigns to that same value:
\* null throws on the read and again on the write in the catch; a primitive
\* throws on the write (module code is strict) and again in the catch
ParseReply(textOutput) ==
    LET r == JSONparse(textOutput) IN
    IF ~r.ok THEN [threw |-> FALSE, parsed |-> FallbackParsed(textOutput)]
    ELSE IF r.val.t = "null" THEN [threw |-> TRUE, message |-> ErrSetOnNull]
    ELSE IF r.val.t \in {"bool", "num", "str"}
         THEN [threw |-> TRUE, message |-> ErrSetOnPrimitive]
    ELSE LET p1 == SetProp(r.val, KeyMarkdown, CoerceMarkdown(GetProp(r.val, KeyMarkdown)))
             p2 == SetProp(p1, KeyIsFirstPage, CoerceIsFirstPage(GetProp(p1, KeyIsFirstPage)))
         IN [threw |-> FALSE, parsed |-> p2]

\* faulty variant of DescriptionIncluded: the describe flag is not consulted
DescriptionIncludedAlways(describe) == TRUE

\* if (describe)
DescriptionIncluded(describe) == Truthy(describe)

\* (typeof parsed.description === 'string') ? parsed.description : ''
DescriptionValue(parsed) ==
    IF TypeOf(GetProp(parsed, KeyDescription)) = "string"
    THEN GetProp(parsed, KeyDescription) ELSE Str(<<>>)

\* if (Array.isArray(parsed.tags))
TagsIncluded(parsed) == IsArray(GetProp(parsed, KeyTags))

\* step 9: the response payload
ResponsePayload(parsed, describe) ==
    [markdown |-> GetProp(parsed, KeyMarkdown),
     isFirstPage |-> GetProp(parsed, KeyIsFirstPage)]
    @@ (IF DescriptionIncluded(describe)
        THEN [description |-> DescriptionValue(parsed)] ELSE <<>>)
    @@ (IF TagsIncluded(parsed) THEN [tags |-> GetProp(parsed, KeyTags)] ELSE <<>>)

NoAssistantText == <<"(","N","o","SP","a","s","s","i","s","t","a","n","t","SP","o","u","t","p","u","t","SP","r","e","t","u","r","n","e","d",".",")">>
NoAssistantPayload ==
    [markdown |-> Str(NoAssistantText), isFirstPage |-> Bool(FALSE)]

\* error.message || 'An unexpected error occurred ...' of the outer catch
ImageErrorMessage(fault) ==
    IF fault.message # "" THEN fault.message ELSE ErrImageGeneric

ImageErrorResponse(fault) == Response(500, [error |-> ImageErrorMessage(fault)])

\* steps 6-9 and the outer catch: [fault, response] for a continuation
Extract(sfx, describe) ==
    LET i == FindAssistant(sfx.messages) IN
    IF i = 0 THEN [fault |-> NoFault, response |-> Response(200, NoAssistantPayload)]
    ELSE LET raw == TextOutput(sfx.messages[i].content) IN
         IF TypeOf(raw) # "string"
         THEN [fault |-> Fault("handler", ErrNotAString),
               response |-> ImageErrorResponse(Fault("handler", ErrNotAString))]
         ELSE LET r == ParseReply(stripJsonCodeFence(raw.s)) IN
              IF r.threw
              THEN [fault |-> Fault("handler", r.message),
                    response |-> ImageErrorResponse(Fault("handler", r.message))]
              ELSE [fault |-> NoFault,
                    response |-> Response(200, ResponsePayload(r.parsed, describe))]

----------------------------------------------------------------------------
(* Inputs of POST /conversion/image: request bodies *)

Url1 == <<"h","t","t","p",":","/","/","a","/","1",".","p","n","g">>
Url0 == <<"h","t","t","p",":","/","/","a","/","0",".","p","n","g">>

BaseBody ==
    [imageUrl |-> Undefined, preceding_image_url |-> Undefined,
     description |-> Undefined, intent |-> Undefined,
     graphic_instructions |-> Undefined, preceding_content |-> Undefined,
     preceding_context |-> Undefined, model |-> Undefined,
     describe |-> Undefined, tags |-> Undefined]

ImageUrls == <<Undefined, Str(<<>>), Str(Url1)>>
DescribeVals == <<Undefined, Bool(TRUE), Bool(FALSE)>>

TagDefs == Obj(<<KV(<<"d","i","a","g","n","o","s","i","s">>, Str(<<"d","x">>))>>)

\* the optional fields a body sets: none, one of them (to the empty string or
\* to a value), or all of them at once
Overrides ==
    << <<>>,
       <<[field |-> "description", val |-> Str(<<>>)]>>,
       <<[field |-> "description", val |-> Str(<<"d">>)]>>,
       <<[field |-> "intent", val |-> Str(<<>>)]>>,
       <<[field |-> "intent", val |-> Str(<<"i">>)]>>,
       <<[field |-> "graphic_instructions", val |-> Str(<<>>)]>>,
       <<[field |-> "graphic_instructions", val |-> Str(<<"g">>)]>>,
       <<[field |-> "preceding_content", val |-> Str(<<>>)]>>,
       <<[field |-> "preceding_content", val |-> Str(<<"p">>)]>>,
       <<[field |-> "preceding_context", val |-> Str(<<>>)]>>,
       <<[field |-> "preceding_context", val |-> Str(<<"c">>)]>>,
       <<[field |-> "preceding_image_url", val |-> Str(<<>>)]>>,
       <<[field |-> "preceding_image_url", val |-> Str(Url0)]>>,
       <<[field |-> "model", val |-> Str(<<"m">>)]>>,
       <<[field |-> "tags", val |-> TagDefs]>>,
       <<[field |-> "tags", val |-> Str(Encode(TagDefs))]>>,
       <<[field |-> "tags", val |-> Str(<<"{","o","o","p","s">>)]>>,
       <<[field |-> "tags", val |-> Str(<<>>)]>>,
       <<[field |-> "tags", val |-> Str(TxtNull)]>>,
       <<[field |-> "tags", val |-> Obj(<<>>)]>>,
       <<[field |-> "description", val |-> Str(<<"d">>)],
         [field |-> "intent", val |-> Str(<<"i">>)],
         [field |-> "graphic_instructions", val |-> Str(<<"g">>)],
         [field |-> "preceding_content", val |-> Str(<<"p">>)],
         [field |-> "preceding_context", val |-> Str(<<"c">>)],
         [field |-> "preceding_image_url", val |-> Str(Url0)],
         [field |-> "model", val |-> Str(<<"m">>)],
         [field |-> "tags", val |-> TagDefs]>>,
       <<[field |-> "description", val |-> Str(<<>>)],
         [field |-> "intent", val |-> Str(<<>>)],
         [field |-> "graphic_instructions", val |-> Str(<<>>)],
         [field |-> "preceding_content", val |-> Str(<<>>)],
         [field |-> "preceding_context", val |-> Str(<<>>)],
         [field |-> "preceding_image_url", val |-> Str(<<>>)],
         [field |-> "model", val |-> Str(<<>>)],
         [field |-> "tags", val |-> Str(<<>>)]>> >>

RECURSIVE ApplyOverrides(_, _, _)
ApplyOverrides(body, os, i) ==
    IF i > Len(os) THEN body
    ELSE ApplyOverrides([body EXCEPT ![os[i].field] = os[i].val], os, i + 1)

MakeBody(u, d, o) ==
    ApplyOverrides([BaseBody EXCEPT !.imageUrl = ImageUrls[u], !.describe = DescribeVals[d]],
                   Overrides[o], 1)

----------------------------------------------------------------------------
(* Inputs of POST /conversion/image: what extendTranscript resolves with *)

TxtHello == <<"H","e","l","l","o","SP","w","o","r","l","d">>

ReplyFull ==
    Obj(<<KV(KeyMarkdown, Str(<<"a">>)), KV(KeyIsFirstPage, Bool(TRUE)),
          KV(KeyDescription, Str(<<"d">>)), KV(KeyTags, Arr(<<Str(<<"d","i","a","g","n","o","s","i","s">>)>>))>>)
ReplyMinimal == Obj(<<KV(KeyMarkdown, Str(<<"a">>)), KV(KeyIsFirstPage, Bool(TRUE))>>)

\* JSON values a model may write as its whole reply
ReplyValues ==
    << ReplyFull,
       ReplyMinimal,
       Obj(<<>>),
       Obj(<<KV(KeyMarkdown, Num(0)), KV(KeyIsFirstPage, Num(1))>>),
       Obj(<<KV(KeyMarkdown, Bool(FALSE)), KV(KeyIsFirstPage, Str(TxtTrue))>>),
       Obj(<<KV(KeyMarkdown, Null), KV(KeyIsFirstPage, Null),
             KV(KeyDescription, Null), KV(KeyTags, Null)>>),
       Obj(<<KV(KeyMarkdown, Num(7)), KV(KeyDescription, Num(5)),
             KV(KeyTags, Str(<<"d","i","a","g","n","o","s","i","s">>))>>),
       Obj(<<KV(KeyMarkdown, Bool(TRUE)), KV(KeyTags, Arr(<<Num(1)>>))>>),
       Obj(<<KV(KeyMarkdown, Arr(<<Str(<<"a">>), Num(1)>>)),
             KV(KeyTags, Arr(<<Str(<<"d","i","a","g","n","o","s","i","s">>), Num(1)>>))>>),
       Obj(<<KV(KeyMarkdown, Obj(<<>>)), KV(KeyTags, Obj(<<>>))>>),
       Obj(<<KV(KeyMarkdown, Str(<<>>)), KV(KeyIsFirstPage, Bool(FALSE)),
             KV(KeyDescription, Str(<<>>)), KV(KeyTags, Arr(<<>>))>>),
       Obj(<<KV(KeyMarkdown, Arr(<<>>)), KV(KeyIsFirstPage, Bool(TRUE)),
             KV(KeyTags, Arr(<<Str(<<"d","i","a","g","n","o","s","i","s">>), Str(<<"t">>)>>))>>),
       Null,
       Num(5),
       Num(0),
       Str(<<"a","b","c">>),
       Bool(TRUE),
       Arr(<<>>),
       Arr(<<Num(1)>>) >>

Fenced(open, body, close) == open \o body \o close

\* replies that are text: plain text, truncated JSON, fenced replies
ReplyTexts ==
    << TxtHello,
       <<>>,
       Fenced(Fence, TxtHello, Fence),
       SubSeq(Encode(ReplyMinimal), 1, Len(Encode(ReplyMinimal)) - 1),
       Fenced(Fence, Encode(ReplyFull), Fence),
       Fenced(Fence \o <<"j","s","o","n","NL">>, Encode(ReplyFull), <<"NL">> \o Fence),
       Fenced(Fence \o <<"j","s","o","n","NL">>, Encode(ReplyFull), <<"NL">> \o Fence \o <<"NL">>),
       Fenced(<<"NL">>, Encode(ReplyFull), <<"SP">>) >>

\* replies whose content is a list of parts
ReplyParts ==
    << Arr(<<Str(SubSeq(Encode(ReplyMinimal), 1, 5)),
             Null,
             Obj(<<KV(KeyText, Str(SubSeq(Encode(ReplyMinimal), 6, Len(Encode(ReplyMinimal)))))>>),
             Obj(<<KV(<<"k","i","n","d">>, Str(<<"i","m","a","g","e">>))>>)>>),
       Arr(<<Str(<<"H","e","l","l","o">>), Obj(<<KV(KeyText, Str(<<>>))>>),
             Obj(<<KV(KeyText, Num(5))>>)>>),
       Arr(<<>>) >>

\* assistantMsg.content of each candidate reply
Contents ==
    [i \in 1..Len(ReplyValues) |-> Str(Encode(ReplyValues[i]))]
    \o [i \in 1..Len(ReplyTexts) |-> Str(ReplyTexts[i])]
    \o ReplyParts
    \o <<Undefined>>

\* the continuations: one assistant message; none; an assistant message
\* after another message and before a second assistant message
Suffixes ==
    [i \in 1..Len(Contents) |-> [messages |-> <<Message("assistant", Contents[i])>>]]
    \o << [messages |-> <<>>],
          [messages |-> <<Message("user", Str(TxtHello))>>],
          [messages |-> <<Message("user", Str(TxtHello)),
                          Message("assistant", Str(Encode(ReplyFull))),
                          Message("assistant", Str(TxtHello))>>] >>

NoSuffix == [received |-> FALSE]

\* messages of the errors the dependencies throw
FaultMessages == {"", "connect ECONNREFUSED 10.0.0.5:443"}

----------------------------------------------------------------------------
(* POST /conversion/image: the handler, one action per stretch between      *)
(* suspension points                                                        *)

\* the request lacks a usable imageUrl: 400, and the handler returns
ImageReject(body) ==
    /\ ipc = "idle"
    /\ fpc = "idle"
    /\ MissingImageUrl(body.imageUrl)
    /\ req' = body
    /\ ires' = Response(400, [error |-> ErrNoImageUrl])
    /\ ipc' = "done"
    /\ UNCHANGED <<transcript, gatewayCalls, suffix, ifault, fileVars, fnVars>>

\* fetchChatModel(modelName) throws: the outer catch answers 500
ImageFetchModelThrows(body, m) ==
    /\ ipc = "idle"
    /\ fpc = "idle"
    /\ ~MissingImageUrl(body.imageUrl)
    /\ req' = body
    /\ transcript' = BuildTranscript(body)
    /\ ifault' = Fault("fetchChatModel", m)
    /\ ires' = ImageErrorResponse(Fault("fetchChatModel", m))
    /\ ipc' = "done"
    /\ UNCHANGED <<gatewayCalls, suffix, fileVars, fnVars>>

\* the transcript is built and chatModel.extendTranscript(transcript) is awaited
ImageInvoke(body) ==
    /\ ipc = "idle"
    /\ fpc = "idle"
    /\ ~MissingImageUrl(body.imageUrl)
    /\ req' = body
    /\ transcript' = BuildTranscript(body)
    /\ gatewayCalls' = gatewayCalls + 1
    /\ ipc' = "awaitGateway"
    /\ UNCHANGED <<suffix, ifault, ires, fileVars, fnVars>>

\* extendTranscript resolves: steps 6 to 9, or the outer catch
GatewayResolves(sfx) ==
    /\ ipc = "awaitGateway"
    /\ suffix' = [received |-> TRUE, messages |-> sfx.messages]
    /\ LET x == Extract(sfx, DescribeOf(req)) IN
        /\ ifault' = x.fault
        /\ ires' = x.response
    /\ ipc' = "done"
    /\ UNCHANGED <<req, transcript, gatewayCalls, fileVars, fnVars>>

\* extendTranscript rejects: the outer catch answers 500
GatewayRejects(m) ==
    /\ ipc = "awaitGateway"
    /\ ifault' = Fault("gateway", m)
    /\ ires' = ImageErrorResponse(Fault("gateway", m))
    /\ ipc' = "done"
    /\ UNCHANGED <<req, transcript, gatewayCalls, suffix, fileVars, fnVars>>

----------------------------------------------------------------------------
(* POST /conversion/file *)

AllowedExtensions ==
    {".txt", ".md", ".docx", ".pdf", ".py", ".js", ".java",
     ".c", ".cpp", ".cs", ".rb", ".go", ".rs", ".php",
     ".html", ".css", ".json", ".xml", ".sh", ".bat"}

\* file.originalname of the uploads
UploadNames == {"report.pdf", "SCAN.PDF", "letter.docx", "notes.txt", "main.py",
                "README", "setup.exe"}

\* path.extname(name).toLowerCase()
ExtOf(name) ==
    CASE name = "report.pdf" -> ".pdf"
      [] name = "SCAN.PDF" -> ".pdf"
      [] name = "letter.docx" -> ".docx"
      [] name = "notes.txt" -> ".txt"
      [] name = "main.py" -> ".py"
      [] name = "README" -> ""
      [] name = "setup.exe" -> ".exe"

\* fileFilter
FileAllowed(name) == ExtOf(name) \in AllowedExtensions

NoFile == [present |-> FALSE]
TempPath == "uploads/3f2a"
ErrNoFile == "No file uploaded."
ErrFileGeneric == "Error converting file."

\* what an extraction strategy yields
FileTexts == {"", "Extracted text"}

NoCalls == [readFile |-> 0, pdfParse |-> 0, mammoth |-> 0]

\* faulty variant of FileErrorBody: the caught error's message is sent
FileErrorBodyEchoes(fault) == [error |-> fault.message]

\* the body of the 500 response of the catch
FileErrorBody(fault) == [error |-> ErrFileGeneric]

\* the request carries no file: 400
FileMissing ==
    /\ fpc = "idle"
    /\ ipc = "idle"
    /\ fres' = Response(400, [error |-> ErrNoFile])
    /\ fpc' = "done"
    /\ UNCHANGED <<file, tempExists, unlinkCalls, extractCalls, ffault, unlinkPending, logged, imageVars, fnVars>>

\* fileFilter refuses the extension: multer stores nothing and passes the
\* error on; the handler is not run
FileFilterRejects(name) ==
    /\ fpc = "idle"
    /\ ipc = "idle"
    /\ ~FileAllowed(name)
    /\ ffault' = Fault("fileFilter", name)
    /\ fpc' = "rejected"
    /\ UNCHANGED <<file, tempExists, unlinkCalls, extractCalls, fres, unlinkPending, logged, imageVars, fnVars>>

\* multer stored the upload; the handler runs to its first await
FileUpload(name) ==
    /\ fpc = "idle"
    /\ ipc = "idle"
    /\ FileAllowed(name)
    /\ file' = [present |-> TRUE, originalname |-> name, path |-> TempPath]
    /\ tempExists' = TRUE
    /\ IF ExtOf(name) = ".pdf"
       THEN /\ extractCalls' = [extractCalls EXCEPT !.readFile = @ + 1]
            /\ fpc' = "readFilePdf"
       ELSE IF ExtOf(name) = ".docx"
       THEN /\ extractCalls' = [extractCalls EXCEPT !.mammoth = @ + 1]
            /\ fpc' = "mammoth"
       ELSE /\ extractCalls' = [extractCalls EXCEPT !.readFile = @ + 1]
            /\ fpc' = "readFileText"
    /\ UNCHANGED <<unlinkCalls, ffault, fres, unlinkPending, logged, imageVars, fnVars>>

\* readFile of the .pdf resolved: pdfParse(dataBuffer) is awaited
FilePdfRead ==
    /\ fpc = "readFilePdf"
    /\ extractCalls' = [extractCalls EXCEPT !.pdfParse = @ + 1]
    /\ fpc' = "pdfParse"
    /\ UNCHANGED <<file, tempExists, unlinkCalls, ffault, fres, unlinkPending, logged, imageVars, fnVars>>

\* the last await resolved: fs.unlink is called and the text is sent
FileExtracted(text) ==
    /\ fpc \in {"pdfParse", "mammoth", "readFileText"}
    /\ unlinkCalls' = unlinkCalls + 1
    /\ unlinkPending' = TRUE
    /\ fres' = Response(200, [markdownContent |-> text])
    /\ fpc' = "done"
    /\ UNCHANGED <<file, tempExists, extractCalls, ffault, logged, imageVars, fnVars>>

\* an await rejected: the catch logs and answers 500
FileThrows(m) ==
    /\ fpc \in {"readFilePdf", "pdfParse", "mammoth", "readFileText"}
    /\ ffault' = Fault(fpc, m)
    /\ fres' = Response(500, FileErrorBody(Fault(fpc, m)))
    /\ fpc' = "done"
    /\ UNCHANGED <<file, tempExists, unlinkCalls, extractCalls, unlinkPending, logged, imageVars, fnVars>>

\* the callback of fs.unlink: the file is gone, or the failure is logged
UnlinkCallback(err) ==
    /\ unlinkPending
    /\ unlinkPending' = FALSE
    /\ IF err THEN logged' = logged + 1 /\ UNCHANGED tempExists
       ELSE tempExists' = FALSE /\ UNCHANGED logged
    /\ UNCHANGED <<fpc, file, unlinkCalls, extractCalls, ffault, fres, imageVars, fnVars>>

----------------------------------------------------------------------------
(* The handlers as a system.  The module keeps no mutable state between     *)
(* requests (upload and router are constants), so one request is followed   *)
(* from its arrival to its response and to the end of its callbacks.        *)

NoOut == [status |-> 0]

HandlersInit ==
    /\ ipc = "idle"
    /\ req = BaseBody
    /\ transcript = <<>>
    /\ gatewayCalls = 0
    /\ suffix = NoSuffix
    /\ ifault = NoFault
    /\ ires = NoResponse
    /\ fpc = "idle"
    /\ file = NoFile
    /\ tempExists = FALSE
    /\ unlinkCalls = 0
    /\ extractCalls = NoCalls
    /\ ffault = NoFault
    /\ fres = NoResponse
    /\ unlinkPending = FALSE
    /\ logged = 0

Init ==
    /\ HandlersInit
    /\ fin = <<>>
    /\ fform = "none"
    /\ fout = NoOut

Next ==
    \/ \E u \in 1..Len(ImageUrls), d \in 1..Len(DescribeVals), o \in 1..Len(Overrides) :
            ImageReject(MakeBody(u, d, o))
    \/ \E u \in 1..Len(ImageUrls), d \in 1..Len(DescribeVals), o \in 1..Len(Overrides) :
            ImageInvoke(MakeBody(u, d, o))
    \/ \E u \in 1..Len(ImageUrls), d \in 1..Len(DescribeVals), o \in 1..Len(Overrides) :
            \E m \in FaultMessages : ImageFetchModelThrows(MakeBody(u, d, o), m)
    \/ \E k \in 1..Len(Suffixes) : GatewayResolves(Suffixes[k])
    \/ \E m \in FaultMessages : GatewayRejects(m)
    \/ FileMissing
    \/ \E name \in UploadNames : FileFilterRejects(name)
    \/ \E name \in UploadNames : FileUpload(name)
    \/ FilePdfRead
    \/ \E text \in FileTexts : FileExtracted(text)
    \/ \E m \in FaultMessages : FileThrows(m)
    \/ \E err \in BOOLEAN : UnlinkCallback(err)

Spec == Init /\ [][Next]_vars

----------------------------------------------------------------------------
(* stripJsonCodeFence and the reply extraction as functions of their input: *)
(* the input text is drawn from the concatenations of a few chunks          *)

MaxChunks == 4

TxtJson == <<"j","s","o","n">>
Chunks == {Fence, TxtJson, <<"NL">>, <<"x">>, <<"QT">>, <<"BT">>}

RECURSIVE Concat(_, _)
Concat(cs, i) == IF i > Len(cs) THEN <<>> ELSE cs[i] \o Concat(cs, i + 1)

FenceInputs ==
    {Concat(cs, 1) : cs \in UNION {[1..k -> Chunks] : k \in 0..MaxChunks}}

\* the reply { "markdown": x, "isFirstPage": true }
WellFormedReply(x) ==
    Obj(<<KV(KeyMarkdown, Str(x)), KV(KeyIsFirstPage, Bool(TRUE))>>)

WrapForms == {"bare", "fence", "fenceNL", "fenceJson", "fenceJsonNL", "fenceJSONNL"}

\* the reply text j as the model sends it: bare, or in one pair of fences
Wrap(form, j) ==
    CASE form = "bare" -> j
      [] form = "fence" -> Fence \o j \o Fence
      [] form = "fenceNL" -> Fence \o <<"NL">> \o j \o <<"NL">> \o Fence
      [] form = "fenceJson" -> Fence \o TxtJson \o j \o Fence
      [] form = "fenceJsonNL" -> Fence \o TxtJson \o <<"NL">> \o j \o <<"NL">> \o Fence
      [] form = "fenceJSONNL" -> Fence \o <<"J","S","O","N","NL">> \o j \o <<"NL">> \o Fence

\* stripJsonCodeFence(fin)
StripApply ==
    /\ fform = "none"
    /\ fform' = "strip"
    /\ fout' = [status |-> 1, text |-> stripJsonCodeFence(fin)]
    /\ UNCHANGED <<fin, imageVars, fileVars>>

\* the response to a continuation whose assistant message is the well-formed
\* reply with markdown fin, sent in the given form
ReplyApply(form) ==
    /\ fform = "none"
    /\ fform' = form
    /\ fout' = Extract([messages |-> <<Message("assistant",
                            Str(Wrap(form, Encode(WellFormedReply(fin)))))>>],
                       Bool(TRUE)).response
    /\ UNCHANGED <<fin, imageVars, fileVars>>

FenceInit ==
    /\ HandlersInit
    /\ fin \in FenceInputs
    /\ fform = "none"
    /\ fout = NoOut

FenceNext ==
    \/ StripApply
    \/ \E form \in WrapForms : ReplyApply(form)

SpecFence == FenceInit /\ [][FenceNext]_vars

----------------------------------------------------------------------------
(* Properties *)

\* the continuation holds an assistant message
HasAssistant == suffix.received /\ FindAssistant(suffix.messages) # 0

\* the handler of /image answered a request whose continuation holds an
\* assistant message
Answered == ipc = "done" /\ HasAssistant

\* the assistant message's text after flattening, and after the strip
ReplyRaw == TextOutput(suffix.messages[FindAssistant(suffix.messages)].content).s
ReplyText == stripJsonCodeFence(ReplyRaw)
ReplyJson == JSONparse(ReplyText)
ReplyIsObject == ReplyJson.ok /\ ReplyJson.val.t = "obj"

\* the request asked for a description: describe is true, or absent
DescribeRequested ==
    \/ req.describe.t = "undefined"
    \/ req.describe.t = "bool" /\ req.describe.b

IsString(v) == v.t = "str"
AllStrings(a) == \A k \in 1..Len(a) : a[k].t = "str"

\* the description the model supplied, the empty string when it supplied none
ModelDescription ==
    IF ReplyIsObject /\ IsString(GetProp(ReplyJson.val, KeyDescription))
    THEN GetProp(ReplyJson.val, KeyDescription)
    ELSE Str(<<>>)

\* C1: whatever the assistant message's content is, the caller receives a
\* success payload in which markdown is a string and isFirstPage a boolean;
\* no model reply leads to an error response.
C1_EveryReplySucceeds ==
    Answered =>
        /\ ires.status = 200
        /\ {"markdown", "isFirstPage"} \subseteq DOMAIN ires.body
        /\ ires.body.markdown.t = "str"
        /\ ires.body.isFirstPage.t = "bool"

\* C2: for every request with an uploaded temporary file, deletion of that
\* file has been attempted when the handler of /file has exited, on the
\* success path and on the path through the catch.
C2_UnlinkOnEveryExit ==
    (fpc = "done" /\ file.present) => unlinkCalls >= 1

\* C3 as stated: every result contains a description key if and only if the
\* request's describe flag is true or absent, on every path that returns a
\* result, the one without an assistant message included; when present and
\* the model produced none it is the empty string.
C3_DescriptionIffDescribe ==
    (ipc = "done" /\ ires.status = 200) =>
        /\ ("description" \in DOMAIN ires.body) <=> DescribeRequested
        /\ ("description" \in DOMAIN ires.body /\ HasAssistant)
                => ires.body.description = ModelDescription

\* C3 amended: a result contains a description key if and only if the
\* describe flag is true or absent and the continuation held an assistant
\* message; the key is then the model's description when that is a string and
\* the empty string otherwise.  The result for a continuation without an
\* assistant message never has the key.
C3_DescriptionIffDescribeAndAssistant ==
    (ipc = "done" /\ ires.status = 200) =>
        /\ ("description" \in DOMAIN ires.body) <=> (DescribeRequested /\ HasAssistant)
        /\ ("description" \in DOMAIN ires.body)
                => ires.body.description = ModelDescription

\* C3 witness: describe is false, the model supplied a description, and the
\* result has no description key
C3_Witness ==
    /\ Answered
    /\ ires.status = 200
    /\ req.describe = Bool(FALSE)
    /\ ModelDescription = Str(<<"d">>)
    /\ "description" \notin DOMAIN ires.body

\* C4 as stated: for a reply that is not valid JSON the result is exactly
\* { markdown: <the stripped, trimmed reply text>, isFirstPage: false }, with
\* neither a description key nor a tags key.
C4_NonJsonExact ==
    (Answered /\ ~ReplyJson.ok) =>
        ires = Response(200, [markdown |-> Str(ReplyText), isFirstPage |-> Bool(FALSE)])

\* C4 amended: for a reply that is not valid JSON the result has markdown equal
\* to the stripped, trimmed reply text, isFirstPage false, no tags key, and a
\* description key exactly when the describe flag is true or absent, whose
\* value is then the empty string.
C4_NonJsonFallback ==
    (Answered /\ ~ReplyJson.ok) =>
        /\ ires.status = 200
        /\ ires.body.markdown = Str(ReplyText)
        /\ ires.body.isFirstPage = Bool(FALSE)
        /\ DOMAIN ires.body =
              {"markdown", "isFirstPage"}
                \cup (IF DescribeRequested THEN {"description"} ELSE {})
        /\ DescribeRequested => ires.body.description = Str(<<>>)

\* C4 witness: the fenced reply ```Hello world```, describe true
C4_Witness ==
    /\ Answered
    /\ ReplyRaw = Fence \o TxtHello \o Fence
    /\ req.describe = Bool(TRUE)
    /\ ires.status = 200
    /\ ires.body.markdown = Str(TxtHello)
    /\ ires.body.description = Str(<<>>)

\* what the strip may do to s: nothing but the trim, or remove the pair of
\* fences that are the first and the last three characters of s (and the json
\* tag after the opening fence), leaving everything between them
StripsOnlyWholeWrap(s, out) ==
    \/ out = Trim(s)
    \/ /\ Len(s) >= 7
       /\ SubSeq(s, 1, 3) = Fence
       /\ SubSeq(s, Len(s) - 2, Len(s)) = Fence
       /\ \/ out = Trim(SubSeq(s, 4, Len(s) - 3))
          \/ /\ HasTagAt(s, 4)
             /\ out = Trim(Slice(s, 8, Len(s) - 3))

\* C5: for every string X, the well-formed reply { "markdown": X,
\* "isFirstPage": true } yields markdown X and isFirstPage true, sent bare, in
\* one pair of fences, or in one pair of fences with a json tag; and the strip
\* removes at most one pair of fences, only when it wraps the entire string.
C5_WellFormedRoundTrip ==
    /\ fform \in WrapForms =>
          /\ fout.status = 200
          /\ fout.body.markdown = Str(fin)
          /\ fout.body.isFirstPage = Bool(TRUE)
    /\ fform = "strip" => StripsOnlyWholeWrap(fin, fout.text)

\* C5 witness: X is itself a fenced text, the reply came in fences with a json
\* tag, and the result's markdown is X
C5_Witness ==
    /\ fform = "fenceJsonNL"
    /\ fin = Fence \o <<"x">> \o Fence
    /\ fout.status = 200
    /\ fout.body.markdown = Str(Fence \o <<"x">> \o Fence)

\* the tags value of the parsed reply
ModelTags ==
    IF ReplyIsObject THEN GetProp(ReplyJson.val, KeyTags) ELSE Undefined

\* C6: the result contains a tags key if and only if the parsed reply's tags
\* value is an array whose every element is a string, and the key then equals
\* that array.
C6_TagsOnlyStringArrays ==
    (Answered /\ ires.status = 200) =>
        /\ ("tags" \in DOMAIN ires.body)
              <=> (IsArray(ModelTags) /\ AllStrings(ModelTags.a))
        /\ ("tags" \in DOMAIN ires.body) => ires.body.tags = ModelTags

\* the error string carries the fault's own message
Leaks(err, fault) == fault.message # "" /\ err = fault.message

GatewayFault == ipc = "done" /\ ifault.thrown /\ ifault.origin = "gateway"
ImageDependencyFault ==
    ipc = "done" /\ ifault.thrown /\ ifault.origin \in {"gateway", "fetchChatModel"}
FileDependencyFault ==
    fpc = "done" /\ ffault.thrown

\* C7 as stated: when the gateway of /image, or the file read or an extraction
\* library of /file throws, the caller receives a server error whose error
\* string does not contain the fault's own message.
C7_NoFaultDetail ==
    /\ GatewayFault => (ires.status = 500 /\ ~Leaks(ires.body.error, ifault))
    /\ FileDependencyFault => (fres.status = 500 /\ ~Leaks(fres.body.error, ffault))

\* C7 amended: when the file read or an extraction library of /file throws,
\* the caller receives status 500 with the fixed error string 'Error
\* converting file.'; when a dependency of /image throws, the caller receives
\* status 500 whose error string is the fault's own message, and the fixed
\* generic string only when that message is empty.
C7_ErrorStrings ==
    /\ FileDependencyFault => fres = Response(500, [error |-> ErrFileGeneric])
    /\ ImageDependencyFault =>
          ires = Response(500, [error |-> IF ifault.message = ""
                                          THEN ErrImageGeneric
                                          ELSE ifault.message])

\* C7 witness: pdfParse threw an error with a message, and the caller of
\* /file received the fixed string
C7_Witness ==
    /\ FileDependencyFault
    /\ ffault.origin = "pdfParse"
    /\ ffault.message # ""
    /\ fres.status = 500
    /\ fres.body.error = ErrFileGeneric

\* C8: a request lacking imageUrl, whatever its other fields, is answered at
\* once with a client error that has an error string and no markdown key, and
\* the gateway is never invoked for it.
C8_MissingImageUrl ==
    (ipc # "idle" /\ req.imageUrl.t = "undefined") =>
        /\ ipc = "done"
        /\ ires.status = 400
        /\ DOMAIN ires.body = {"error"}
        /\ ires.body.error = ErrNoImageUrl
        /\ gatewayCalls = 0
        /\ ~suffix.received

\* C8 witness: a request without imageUrl but with tag definitions was answered 400
C8_Witness ==
    /\ ipc = "done"
    /\ req.imageUrl.t = "undefined"
    /\ req.tags = TagDefs
    /\ ires.status = 400
    /\ gatewayCalls = 0

\* the blocks of the user message's text, and its attachments
UserParts == transcript[2].content
HasSection(name) == \E k \in 1..Len(UserParts[1].text) : UserParts[1].text[k].sec = name
HasAttachment(url) ==
    \E k \in 2..Len(UserParts) : UserParts[k].kind = "image" /\ UserParts[k].source = url
Present(field) == field.t # "undefined"

\* the request carries tag definitions: a mapping, or a string that decodes
TagsPresent ==
    /\ Present(req.tags)
    /\ IsString(req.tags) => JSONparse(req.tags.s).ok

NonEmpty(field) == field.t = "str" /\ field.s # <<>>

\* the user text has the block `name`, rendering `field`
SectionRenders(name, field) ==
    \E k \in 1..Len(UserParts[1].text) :
        UserParts[1].text[k] = [sec |-> name, arg |-> field.s]

\* a block is in the user text exactly when its field is a non-empty string,
\* and then renders the field
ByNonEmpty(name, field) ==
    /\ HasSection(name) <=> NonEmpty(field)
    /\ NonEmpty(field) => SectionRenders(name, field)

\* the request's tags are a mapping, given as such or as the JSON text of one
TagsAreMapping ==
    \/ req.tags.t = "obj"
    \/ /\ req.tags.t = "str"
       /\ JSONparse(req.tags.s).ok
       /\ JSONparse(req.tags.s).val.t = "obj"

ClaimedMarkdown(m) ==
    IF m.t = "str" THEN m
    ELSE IF m.t \in {"undefined", "null"} THEN Str(<<>>)
    ELSE Str(ToStringJS(m))

\* C10: when the reply parses as a JSON object, the result's markdown is the
\* value itself when a string, the empty string when absent or null, and the
\* stringified value otherwise (0 gives "0", false gives "false"); isFirstPage
\* is the reply's value when a boolean and false otherwise.
C10_FieldCoercion ==
    (Answered /\ ReplyIsObject) =>
        /\ ires.status = 200
        /\ ires.body.markdown = ClaimedMarkdown(GetProp(ReplyJson.val, KeyMarkdown))
        /\ ires.body.isFirstPage =
              (IF GetProp(ReplyJson.val, KeyIsFirstPage).t = "bool"
               THEN GetProp(ReplyJson.val, KeyIsFirstPage) ELSE Bool(FALSE))

====
